---------------------------- MODULE Spec2Model ----------------------------
(***************************************************************************)
(* Embedding-based ranking in Embeddings.ipynb:                            *)
(*   search_reviews / search_functions  (data frame, cosine_similarity,    *)
(*                                       sort_values(...).head(n))         *)
(*   recommendations_from_strings       (distances_from_embeddings,        *)
(*                                       indices_of_nearest_neighbors)     *)
(*                                                                         *)
(* Numbers.  The notebook computes in IEEE doubles.  The vectors of the    *)
(* model have integer components and integer Euclidean norms, so every     *)
(* dot product and norm is an exact double and every quotient is the       *)
(* correctly rounded value of an exact fraction: two quotients are equal   *)
(* doubles exactly when the fractions are equal.  A float is therefore a   *)
(* reduced fraction [num, den], or NaN (0.0 / 0.0 in numpy).               *)
(***************************************************************************)
EXTENDS Integers, Sequences, FiniteSets

VARIABLES
    df,          \* the caller's data frame (columns; row i+1 has index label i)
    pc,          \* per caller: where it is in the function it called
    fn,          \* per caller: the function it called
    args,        \* per caller: the arguments of the call
    embedding,   \* per caller: local `embedding` / `query_embedding`
    distances,   \* per caller: local `distances` of recommendations_from_strings
    indexer,     \* per caller: the row order sort_values has computed
    res,         \* per caller: the value returned
    err,         \* per caller: the exception raised
    kernel       \* the names bound in the kernel besides those the cells bind

vars == <<df, pc, fn, args, embedding, distances, indexer, res, err, kernel>>

-----------------------------------------------------------------------------
(* Bounds of the model *)

MaxRows == 4
MaxRowsConc == 2
MaxN == 0
MaxStrings == 2

(* Program constants *)

DefaultN == 3

Threads == {"main", "worker"}

\* Floats that are not numbers, and what a library call does instead of returning
NaN == [nan |-> TRUE]
ValueError == [raises |-> "ValueError"]

\* The columns of the frame before a search
BaseColumns == {"ada_embedding", "code", "code_embedding"}

-----------------------------------------------------------------------------
(* Arithmetic on floats (exact fractions, NaN) *)

Abs(x) == IF x < 0 THEN -x ELSE x

Min(a, b) == IF a <= b THEN a ELSE b

Max(a, b) == IF a >= b THEN a ELSE b

RECURSIVE GCD(_, _)
GCD(a, b) == IF b = 0 THEN a ELSE GCD(b, a % b)

\* num / den for den > 0, as the reduced fraction
Frac(num, den) ==
    LET g == GCD(Abs(num), den)
    IN  [num |-> num \div g, den |-> den \div g]

IsNaN(x) == x = NaN

\* x < y on floats; every comparison with NaN is false
FLess(x, y) == ~IsNaN(x) /\ ~IsNaN(y) /\ x.num * y.den < y.num * x.den

\* x <= y on floats; every comparison with NaN is false
FLeq(x, y) == ~IsNaN(x) /\ ~IsNaN(y) /\ x.num * y.den <= y.num * x.den

Zero == Frac(0, 1)

RECURSIVE ISqrtFrom(_, _)
ISqrtFrom(x, r) == IF (r + 1) * (r + 1) > x THEN r ELSE ISqrtFrom(x, r + 1)

\* sqrt on the perfect squares the model's vectors produce
Sqrt(x) == ISqrtFrom(x, 0)

RECURSIVE Dot(_, _)
Dot(a, b) == IF a = <<>> THEN 0 ELSE Head(a) * Head(b) + Dot(Tail(a), Tail(b))

\* np.linalg.norm
Norm(a) == Sqrt(Dot(a, a))

-----------------------------------------------------------------------------
(* The embedding service and the inputs the model draws from *)

Texts == {"a", "a2", "c", "z"}

\* get_embedding / embedding_from_string: the external embedding service, a
\* fixed table from text to vector ("a2" has the direction of "a", "z" is the
\* zero vector)
get_embedding(text) ==
    CASE text = "a"  -> <<1, 0>>
      [] text = "a2" -> <<2, 0>>
      [] text = "c"  -> <<3, 4>>
      [] text = "z"  -> <<0, 0>>

\* The texts a search is asked for
Queries == {"a", "c", "z"}

\* The rows a data frame is built from: a stored review embedding (read from
\* a file, so of any length) and a code text
RowSet ==
    { [ada_embedding |-> <<1, 0>>,    code |-> "z"],
      [ada_embedding |-> <<3, 4>>,    code |-> "a"],
      [ada_embedding |-> <<0, 0>>,    code |-> "c"],
      [ada_embedding |-> <<1, 0, 0>>, code |-> "a2"] }

RECURSIVE SeqsUpTo(_, _)
SeqsUpTo(S, k) ==
    IF k = 0 THEN {<<>>}
    ELSE LET shorter == SeqsUpTo(S, k - 1)
         IN  shorter \cup {Append(s, x) : s \in {q \in shorter : Len(q) = k - 1}, x \in S}

\* df['code_embedding'] = df['code'].apply(lambda x: get_embedding(x, ...))
CodeEmbeddingColumn(code) == [i \in 1..Len(code) |-> get_embedding(code[i])]

\* A data frame of the given rows, before any search
Frame(rows) ==
    [ada_embedding  |-> [i \in 1..Len(rows) |-> rows[i].ada_embedding],
     code           |-> [i \in 1..Len(rows) |-> rows[i].code],
     code_embedding |-> CodeEmbeddingColumn([i \in 1..Len(rows) |-> rows[i].code]),
     similarities   |-> <<>>,
     columns        |-> BaseColumns]

NRows(frame) == Len(frame.ada_embedding)

-----------------------------------------------------------------------------
(* openai.embeddings_utils, numpy, scipy and pandas, as the notebook calls them *)

\* cosine_similarity with the dot product taken over the common prefix of the
\* two vectors, as sum(x * y for x, y in zip(a, b)) would: no error on
\* vectors of different lengths
cosine_similarity_zip(a, b) ==
    LET m == Min(Len(a), Len(b))
        d == Dot(SubSeq(a, 1, m), SubSeq(b, 1, m))
    IN  IF Norm(a) * Norm(b) = 0 THEN NaN
        ELSE Frac(d, Norm(a) * Norm(b))

\* cosine_similarity(a, b) = np.dot(a, b) / (np.linalg.norm(a) * np.linalg.norm(b));
\* np.dot raises ValueError on vectors of different lengths; 0.0 / 0.0 is nan
cosine_similarity(a, b) ==
    IF Len(a) # Len(b) THEN ValueError
    ELSE IF Norm(a) * Norm(b) = 0 THEN NaN
    ELSE Frac(Dot(a, b), Norm(a) * Norm(b))

\* df.<column>.apply(lambda x: cosine_similarity(x, embedding))
ApplyCosineSimilarity(column, emb) ==
    [i \in 1..Len(column) |-> cosine_similarity(column[i], emb)]

Raises(values) == \E i \in 1..Len(values) : values[i] = ValueError

\* The notebook pins no scipy release, and the releases differ on a vector of
\* zero norm, where 1 - u.v / sqrt(u.u * v.v) is nan:
\*   "clip"    (scipy >= 1.12)  np.clip(nan, 0.0, 2.0) = nan
\*   "max_min" (scipy < 1.12)   max(0, min(nan, 2.0)) = 0
ScipyReleases == {"clip", "max_min"}

\* The cosine distance without its "1 -": the similarity
CosineDistance_similarity(release, u, v) ==
    IF Len(u) # Len(v) THEN ValueError
    ELSE IF Dot(u, u) * Dot(v, v) = 0 THEN (IF release = "clip" THEN NaN ELSE Zero)
    ELSE Frac(Dot(u, v), Sqrt(Dot(u, u) * Dot(v, v)))

\* scipy.spatial.distance.cosine(u, v): 1 - u.v / sqrt(u.u * v.v), kept within
\* [0, 2] the way the installed release does it
CosineDistance(release, u, v) ==
    IF Len(u) # Len(v) THEN ValueError
    ELSE IF Dot(u, u) * Dot(v, v) = 0 THEN (IF release = "clip" THEN NaN ELSE Zero)
    ELSE LET d == Sqrt(Dot(u, u) * Dot(v, v))
             x == Frac(d - Dot(u, v), d)
         IN  IF FLess(x, Zero) THEN Zero
             ELSE IF FLess(Frac(2, 1), x) THEN Frac(2, 1)
             ELSE x

\* distances_from_embeddings(query_embedding, embeddings, distance_metric="cosine")
distances_from_embeddings(release, query_embedding, embeddings) ==
    [i \in 1..Len(embeddings) |-> CosineDistance(release, query_embedding, embeddings[i])]

RECURSIVE Perms(_)
\* The sequences that hold every element of S once
Perms(S) ==
    IF S = {} THEN {<<>>}
    ELSE UNION { {<<x>> \o p : p \in Perms(S \ {x})} : x \in S }

\* Index labels of a frame or list of k entries (0-based)
Labels(k) == 0..(k - 1)

\* The row orders df.sort_values('similarities', ascending=False) can produce.
\* The default kind is 'quicksort', which is not stable: rows with equal
\* values come in an order the numpy build decides.  NaN rows come last
\* (na_position='last'), in index order.
SortValuesDescending(sims) ==
    { p \in Perms(Labels(Len(sims))) :
        \A i, j \in 1..Len(p) : i < j =>
            LET x == sims[p[i] + 1]
                y == sims[p[j] + 1]
            IN  /\ IsNaN(x) => (IsNaN(y) /\ p[i] < p[j])
                /\ (~IsNaN(x) /\ ~IsNaN(y)) => FLeq(y, x) }

\* head that keeps one row too many
head_one_more(rows, n) ==
    IF n >= 0 THEN SubSeq(rows, 1, Min(n + 1, Len(rows)))
    ELSE SubSeq(rows, 1, Max(Len(rows) + n + 1, 0))

\* DataFrame.head(n): the first n rows; all but the last -n for a negative n
head(rows, n) ==
    IF n >= 0 THEN SubSeq(rows, 1, Min(n, Len(rows)))
    ELSE SubSeq(rows, 1, Max(Len(rows) + n, 0))

\* The rows of the sorted frame: index label and 'similarities' value
SortedRows(sims, order) ==
    [k \in 1..Len(order) |-> [index |-> order[k], similarities |-> sims[order[k] + 1]]]

\* indices_of_nearest_neighbors_from_distances(distances) = np.argsort(distances):
\* ascending, nan last, default kind 'quicksort' (ties in any order)
indices_of_nearest_neighbors_from_distances(dists) ==
    { p \in Perms(Labels(Len(dists))) :
        \A i, j \in 1..Len(p) : i < j =>
            LET x == dists[p[i] + 1]
                y == dists[p[j] + 1]
            IN  /\ IsNaN(x) => IsNaN(y)
                /\ (~IsNaN(x) /\ ~IsNaN(y)) => FLeq(x, y) }

-----------------------------------------------------------------------------
(* State *)

SearchFunctions == {"search_reviews", "search_functions"}

\* The column a search function reads
EmbeddingColumn(frame, f) ==
    IF f = "search_reviews" THEN frame.ada_embedding ELSE frame.code_embedding

NoArgs == [none |-> TRUE]

Idle ==
    /\ pc = [t \in Threads |-> "idle"]
    /\ fn = [t \in Threads |-> "none"]
    /\ args = [t \in Threads |-> NoArgs]
    /\ embedding = [t \in Threads |-> <<>>]
    /\ distances = [t \in Threads |-> <<>>]
    /\ indexer = [t \in Threads |-> <<>>]
    /\ res = [t \in Threads |-> <<>>]
    /\ err = [t \in Threads |-> "none"]

\* The names the recommendations cell uses and no cell of the notebook binds:
\* List in the signature, the three helpers in the body
KernelNames ==
    {"List", "embedding_from_string", "distances_from_embeddings",
     "indices_of_nearest_neighbors_from_distances"}

Init ==
    /\ df \in {Frame(rows) : rows \in SeqsUpTo(RowSet, MaxRows)}
    /\ kernel = {}
    /\ Idle

\* A caller is outside any call
AtRest(t) == pc[t] \in {"idle", "returned", "raised"}

-----------------------------------------------------------------------------
(* search_reviews(df, product_description, n=3) and
   search_functions(df, code_query, n=3), line by line *)

\* embedding = get_embedding(<query>, model='text-embedding-3-small')
SearchEmbed(t, f, query, n, given) ==
    /\ AtRest(t)
    /\ pc' = [pc EXCEPT ![t] = "assign"]
    /\ fn' = [fn EXCEPT ![t] = f]
    /\ args' = [args EXCEPT ![t] = [query |-> query, n |-> n, n_given |-> given]]
    /\ embedding' = [embedding EXCEPT ![t] = get_embedding(query)]
    /\ distances' = [distances EXCEPT ![t] = <<>>]
    /\ indexer' = [indexer EXCEPT ![t] = <<>>]
    /\ res' = [res EXCEPT ![t] = <<>>]
    /\ err' = [err EXCEPT ![t] = "none"]
    /\ UNCHANGED <<df, kernel>>

\* df['similarities'] = df.<column>.apply(lambda x: cosine_similarity(x, embedding))
SearchAssign(t) ==
    /\ pc[t] = "assign"
    /\ LET sims == ApplyCosineSimilarity(EmbeddingColumn(df, fn[t]), embedding[t])
       IN  IF Raises(sims)
           THEN /\ pc' = [pc EXCEPT ![t] = "raised"]
                /\ err' = [err EXCEPT ![t] = "ValueError"]
                /\ UNCHANGED df
           ELSE /\ pc' = [pc EXCEPT ![t] = "sort"]
                /\ df' = [df EXCEPT !.similarities = sims,
                                    !.columns = @ \cup {"similarities"}]
                /\ UNCHANGED err
    /\ UNCHANGED <<fn, args, embedding, distances, indexer, res, kernel>>

\* df.sort_values('similarities', ascending=False), first half: it reads the
\* column and computes the order of the rows
SearchSort(t) ==
    /\ pc[t] = "sort"
    /\ \E order \in SortValuesDescending(df.similarities) :
           indexer' = [indexer EXCEPT ![t] = order]
    /\ pc' = [pc EXCEPT ![t] = "take"]
    /\ UNCHANGED <<df, fn, args, embedding, distances, res, err, kernel>>

\* df.sort_values(...), second half: it reads the frame again and takes the
\* rows in that order; then .head(n), res = ..., return res
SearchTakeHead(t) ==
    /\ pc[t] = "take"
    /\ res' = [res EXCEPT ![t] = head(SortedRows(df.similarities, indexer[t]), args[t].n)]
    /\ pc' = [pc EXCEPT ![t] = "returned"]
    /\ UNCHANGED <<df, fn, args, embedding, distances, indexer, err, kernel>>

\* One step of a search call by caller t
Search(t) ==
    \/ \E f \in SearchFunctions, query \in Queries :
          \/ SearchEmbed(t, f, query, DefaultN, FALSE)
          \/ \E n \in (0 - 1)..MaxN : SearchEmbed(t, f, query, n, TRUE)
    \/ SearchAssign(t)
    \/ SearchSort(t)
    \/ SearchTakeHead(t)

-----------------------------------------------------------------------------
(* recommendations_from_strings(strings, index_of_source_string) *)

\* embeddings = [embedding_from_string(string, model=model) for string in strings]
EmbeddingsOf(strings) == [i \in 1..Len(strings) |-> get_embedding(strings[i])]

\* The call, to `embeddings = [...]`.  The def evaluates List: where the kernel
\* does not bind it the def raises NameError, the function is not bound and so
\* the call raises NameError.  The comprehension looks embedding_from_string
\* up once per string
RecommendEmbed(t, strings, index_of_source_string) ==
    /\ AtRest(t)
    /\ fn' = [fn EXCEPT ![t] = "recommendations_from_strings"]
    /\ args' = [args EXCEPT ![t] = [strings |-> strings,
                                    index_of_source_string |-> index_of_source_string]]
    /\ embedding' = [embedding EXCEPT ![t] = <<>>]
    /\ distances' = [distances EXCEPT ![t] = <<>>]
    /\ indexer' = [indexer EXCEPT ![t] = <<>>]
    /\ res' = [res EXCEPT ![t] = <<>>]
    /\ IF \/ "List" \notin kernel
          \/ (strings # <<>> /\ "embedding_from_string" \notin kernel)
       THEN /\ pc' = [pc EXCEPT ![t] = "raised"]
            /\ err' = [err EXCEPT ![t] = "NameError"]
       ELSE /\ pc' = [pc EXCEPT ![t] = "rank"]
            /\ err' = [err EXCEPT ![t] = "none"]
    /\ UNCHANGED <<df, kernel>>

\* A Python list of k entries accepts the indices -k .. k - 1
ListIndexInRange(k, i) == (0 - k) <= i /\ i < k

\* The entry list[i] names, as a 0-based label: a negative i counts from the end
ListPosition(k, i) == IF i >= 0 THEN i ELSE k + i

\* query_embedding = embeddings[index_of_source_string] (IndexError outside
\* -len .. len - 1), the distances as the installed scipy computes them, the
\* indices, the return; NameError at the first helper the kernel does not bind
RecommendRank(t) ==
    /\ pc[t] = "rank"
    /\ LET embeddings == EmbeddingsOf(args[t].strings)
           index_of_source_string == args[t].index_of_source_string
       IN  IF ~ListIndexInRange(Len(embeddings), index_of_source_string)
           THEN /\ pc' = [pc EXCEPT ![t] = "raised"]
                /\ err' = [err EXCEPT ![t] = "IndexError"]
                /\ UNCHANGED <<embedding, distances, res>>
           ELSE LET query_embedding ==
                        embeddings[ListPosition(Len(embeddings), index_of_source_string) + 1]
                IN  /\ embedding' = [embedding EXCEPT ![t] = query_embedding]
                    /\ IF "distances_from_embeddings" \notin kernel
                       THEN /\ pc' = [pc EXCEPT ![t] = "raised"]
                            /\ err' = [err EXCEPT ![t] = "NameError"]
                            /\ UNCHANGED <<distances, res>>
                       ELSE \E release \in ScipyReleases :
                         LET dists ==
                                 distances_from_embeddings(release, query_embedding, embeddings)
                         IN  /\ distances' = [distances EXCEPT ![t] = dists]
                             /\ IF "indices_of_nearest_neighbors_from_distances" \notin kernel
                                THEN /\ pc' = [pc EXCEPT ![t] = "raised"]
                                     /\ err' = [err EXCEPT ![t] = "NameError"]
                                     /\ UNCHANGED res
                                ELSE /\ \E order \in
                                          indices_of_nearest_neighbors_from_distances(dists) :
                                            res' = [res EXCEPT ![t] = order]
                                     /\ pc' = [pc EXCEPT ![t] = "returned"]
                                     /\ UNCHANGED err
    /\ UNCHANGED <<df, fn, args, indexer, kernel>>

\* The lists of strings a recommendations call is given
StringLists == SeqsUpTo(Texts, MaxStrings)

\* One step of a recommendations call by caller t
Recommend(t) ==
    \/ \E strings \in StringLists :
           \E index_of_source_string \in (0 - Len(strings) - 1)..Len(strings) :
               RecommendEmbed(t, strings, index_of_source_string)
    \/ RecommendRank(t)

-----------------------------------------------------------------------------
(* Specifications *)

\* The notebook as written: one caller, one search at a time
Next == Search("main")

Spec == Init /\ [][Next]_vars

\* Two callers searching the same frame, their lines interleaved
InitConc ==
    /\ df \in {Frame(rows) : rows \in SeqsUpTo(RowSet, MaxRowsConc)}
    /\ kernel = {}
    /\ Idle

NextConc == \E t \in Threads : Search(t)

SpecConc == InitConc /\ [][NextConc]_vars

\* The recommendations cell, over an empty frame.  The notebook's own cells
\* leave every one of KernelNames unbound (kernel = {}); a kernel that binds
\* some of them got them from statements run outside the notebook
InitRec ==
    /\ df = Frame(<<>>)
    /\ kernel \in SUBSET KernelNames
    /\ Idle

NextRec == Recommend("main")

SpecRec == InitRec /\ [][NextRec]_vars

-----------------------------------------------------------------------------
(* What the claims speak of *)

Returned(t) == pc[t] = "returned"

Searching(t) == fn[t] \in SearchFunctions

Recommending(t) == fn[t] = "recommendations_from_strings"

\* The similarities of caller t's own query to the rows of the frame
OwnSimilarities(t) == ApplyCosineSimilarity(EmbeddingColumn(df, fn[t]), embedding[t])

\* Cosine distance = 1 - cosine similarity
DistanceOf(sim) == IF IsNaN(sim) THEN NaN ELSE Frac(sim.den - sim.num, sim.den)

\* The distance from caller t's query to the row with index label k
RowDistance(t, k) == DistanceOf(OwnSimilarities(t)[k + 1])

\* x ranks strictly ahead of y: a smaller distance, or a defined one against nan
Ahead(x, y) == FLess(x, y) \/ (~IsNaN(x) /\ IsNaN(y))

\* Some row's vector and caller t's query have different lengths
Mismatch(t) ==
    \E i \in 1..NRows(df) : Len(EmbeddingColumn(df, fn[t])[i]) # Len(embedding[t])

\* The position of index label k in a sequence of index labels
PositionOf(order, k) == CHOOSE i \in 1..Len(order) : order[i] = k

\* The index label of the source string of caller t's recommendations call
Source(t) == ListPosition(Len(args[t].strings), args[t].index_of_source_string)

\* The index of caller t's recommendations call is one the list accepts
SourceInRange(t) == ListIndexInRange(Len(args[t].strings), args[t].index_of_source_string)

-----------------------------------------------------------------------------
(* C1.  In every result a search returns, the distances to the query are
   non-decreasing from each position to the next. *)
C1_DistancesNonDecreasing ==
    \A t \in Threads : (Returned(t) /\ Searching(t)) =>
        \A i \in 1..(Len(res[t]) - 1) :
            FLeq(RowDistance(t, res[t][i].index), RowDistance(t, res[t][i + 1].index))

(* C2, as claimed.  A search with a valid n (none, or n >= 0) returns
   min(n, rows) entries when n is given and as many entries as the frame has
   rows when n is not given. *)
C2_LengthAsClaimed ==
    \A t \in Threads : (Returned(t) /\ Searching(t) /\ args[t].n >= 0) =>
        Len(res[t]) = IF args[t].n_given THEN Min(args[t].n, NRows(df)) ELSE NRows(df)

(* C2, amended.  A search returns min(n, rows) entries, where n is 3 when the
   caller gives none (for a negative n, all rows but the last -n); the
   entries are distinct rows in ranking order, and no row left out ranks
   strictly ahead of a row returned. *)
C2_Length ==
    \A t \in Threads : (Returned(t) /\ Searching(t)) =>
        LET r == res[t]
            kept == {r[i].index : i \in 1..Len(r)}
        IN  /\ ~args[t].n_given => args[t].n = DefaultN
            /\ Len(r) = IF args[t].n >= 0 THEN Min(args[t].n, NRows(df))
                        ELSE Max(NRows(df) + args[t].n, 0)
            /\ kept \subseteq Labels(NRows(df))
            /\ Cardinality(kept) = Len(r)
            /\ \A i, j \in 1..Len(r) : i < j =>
                   ~Ahead(RowDistance(t, r[j].index), RowDistance(t, r[i].index))
            /\ \A k \in Labels(NRows(df)) \ kept : \A i \in 1..Len(r) :
                   ~Ahead(RowDistance(t, k), RowDistance(t, r[i].index))

\* A search without n over more rows than the default returned the default number
C2_Witness ==
    /\ Returned("main") /\ Searching("main")
    /\ ~args["main"].n_given
    /\ NRows(df) > DefaultN
    /\ Len(res["main"]) = DefaultN

\* The indices of a result at equal distances are in input order
InInputOrder(order, dists) ==
    \A i, j \in 1..Len(order) :
        (i < j /\ dists[order[i] + 1] = dists[order[j] + 1]) => order[i] < order[j]

(* C3, as claimed, where neither a zero vector nor the order the sort gives
   to ties is involved: over strings none of which embeds to the zero
   vector, a result of recommendations_from_strings that keeps ties in input
   order has the source string first, with distance 0. *)
C3_SourceFirstAsClaimed ==
    \A t \in Threads :
        (/\ Returned(t) /\ Recommending(t)
         /\ \A i \in 1..Len(args[t].strings) : Norm(get_embedding(args[t].strings[i])) # 0
         /\ InInputOrder(res[t], distances[t])) =>
            /\ res[t][1] = Source(t)
            /\ distances[t][Source(t) + 1] = Zero

(* C3, amended.  The source string has distance 0 (for an embedding of zero
   norm: 0 or nan, as the scipy release has it), every index placed before it
   has the same distance as it, and it is first when no other string has that
   distance. *)
C3_SourceAmongNearest ==
    \A t \in Threads : (Returned(t) /\ Recommending(t)) =>
        LET d == distances[t][Source(t) + 1]
            at == PositionOf(res[t], Source(t))
        IN  /\ Source(t) \in {res[t][i] : i \in 1..Len(res[t])}
            /\ d \in {Zero, NaN}
            /\ Norm(embedding[t]) # 0 => d = Zero
            /\ \A i \in 1..(at - 1) : distances[t][res[t][i] + 1] = d
            /\ (\A k \in Labels(Len(distances[t])) \ {Source(t)} :
                    distances[t][k + 1] # d) => res[t][1] = Source(t)

\* The source string came back at distance 0 behind another string of its direction
C3_Witness ==
    /\ Returned("main") /\ Recommending("main")
    /\ distances["main"][Source("main") + 1] = Zero
    /\ res["main"][1] # Source("main")
    /\ args["main"].strings[res["main"][1] + 1] # args["main"].strings[Source("main") + 1]

(* C4.  Rows at equal distance from the query come back in the order they
   have in the frame. *)
C4_TiesInInputOrder ==
    \A t \in Threads : (Returned(t) /\ Searching(t)) =>
        \A i, j \in 1..Len(res[t]) :
            (i < j /\ RowDistance(t, res[t][i].index) = RowDistance(t, res[t][j].index))
                => res[t][i].index < res[t][j].index

(* C5.  No step of a search changes the caller's frame. *)
C5_FrameUnchanged == [][df' = df]_vars

(* C6.  A search that runs interleaved with a search of the same function
   for another query vector, over the same frame, returns a result it could
   return when run alone with its own query. *)
C6_AsWhenAlone ==
    \A t \in Threads :
        (/\ Returned(t) /\ Searching(t)
         /\ \A u \in Threads \ {t} :
                fn[u] = fn[t] /\ embedding[u] # embedding[t] /\ ~Raises(OwnSimilarities(u))) =>
        res[t] \in { head(SortedRows(OwnSimilarities(t), order), args[t].n) :
                       order \in SortValuesDescending(OwnSimilarities(t)) }

(* C7.  When a row's vector and the query differ in length, the search raises
   (numpy's ValueError) at the line that computes the similarities: nothing
   is returned and the frame is left as it was. *)
C7_DimensionMismatch ==
    [][\A t \in Threads :
          (pc[t] = "assign" /\ Mismatch(t) /\ pc'[t] # "assign") =>
              /\ pc'[t] = "raised"
              /\ err'[t] = "ValueError"
              /\ res'[t] = <<>>
              /\ df' = df]_vars

\* A search raised over a frame that holds rows of the query's length and
\* rows of another length
C7_Witness ==
    /\ pc["main"] = "raised" /\ Searching("main")
    /\ err["main"] = "ValueError"
    /\ Mismatch("main")
    /\ \E i \in 1..NRows(df) :
           Len(EmbeddingColumn(df, fn["main"])[i]) = Len(embedding["main"])

(* C8.  A search over a frame without rows raises instead of returning. *)
C8_EmptyInputRaises ==
    \A t \in Threads :
        (Searching(t) /\ NRows(df) = 0 /\ AtRest(t)) => pc[t] = "raised"

(* C9.  No entry of a returned result carries an undefined (nan) value. *)
C9_NoUndefinedDistance ==
    \A t \in Threads : (Returned(t) /\ Searching(t)) =>
        \A i \in 1..Len(res[t]) : ~IsNaN(res[t][i].similarities)

(* C10.  Called with an index the list accepts (counted from the front, or
   negative and counted from the end), recommendations_from_strings returns
   every index of the list exactly once, the source string's among them. *)
C10_Permutation ==
    \A t \in Threads :
        (Recommending(t) /\ AtRest(t) /\ SourceInRange(t)) =>
            /\ Returned(t)
            /\ Len(res[t]) = Len(args[t].strings)
            /\ {res[t][i] : i \in 1..Len(res[t])} = Labels(Len(args[t].strings))
            /\ \E i \in 1..Len(res[t]) : res[t][i] = Source(t)

=============================================================================
